---- MODULE Spec2Model ----
(***************************************************************************)
(* The search functors of include/rmi/util/search.hpp as a state machine.  *)
(*                                                                         *)
(* One call of a functor is one run: Init draws the arguments (the sorted  *)
(* range, the searched value, the predicted position and the functor),     *)
(* the actions are the steps of the functor's body, and Recall is the      *)
(* caller invoking a model-biased functor again on the same range and      *)
(* value with another predicted position.                                  *)
(*                                                                         *)
(* Iterators are offsets from `first`: first = 0, last = Len(data).        *)
(* Iterator arithmetic that leaves [first, last] without a dereference     *)
(* (curr += bound, --runner) is plain integer arithmetic.  A dereference   *)
(* outside [first, last) has no defined outcome: it traps or yields an     *)
(* arbitrary value.                                                        *)
(***************************************************************************)
EXTENDS Integers, Sequences, FiniteSets

\* ----------------------------------------------------------------- bounds
MaxLen == 4
MaxElem == 2
\* half of a vector lane, in bits (32 in the source: _mm512_set1_epi32
\* fills 64-bit lanes with two copies of the low 32 bits of the value)
HalfLaneBits == 3
\* width of intptr_t, in bits (64 in the source)
PtrBits == 8

\* ------------------------------------------------------ program constants
SimdStep == 8
MINUS_ONE == -1

Elems == 0..MaxElem
Queries == 0..(MaxElem + 1)
\* what a read outside the range may yield: a value below every query and
\* a value above every query
Garbage == {-1, MaxElem + 2}

Strategies == {"LinearSearch", "ModelBiasedLinearSearch", "BinarySearch",
               "ModelBiasedBinarySearch", "ExponentialSearch",
               "ModelBiasedExponentialSearch", "LinearSearch_SIMD",
               "ModelBiasedLinearSearch_SIMD", "BinarySearch_Branchless",
               "ModelBiasedBinarySearch_Branchless"}

ModelBiased == {"ModelBiasedLinearSearch", "ModelBiasedBinarySearch",
                "ModelBiasedExponentialSearch", "ModelBiasedLinearSearch_SIMD",
                "ModelBiasedBinarySearch_Branchless"}

VARIABLES data, value, pred, strat,   \* the arguments of the call
          pc, dir, result,            \* position in the body, branch taken, returned offset
          runner,                     \* ModelBiasedLinearSearch
          bound, prev, curr,          \* the exponential searches
          sfirst, slast,              \* the range handed to std::lower_bound
          n, pos, step,               \* the branchless searches (n: the SIMD searches too)
          base, i,                    \* the SIMD searches: offset of `data`, block index
          probes, nprobes,            \* offsets dereferenced by the loop so far, and how many
          prevCall                    \* <<pred, result>> of the previous call, or <<>>

args == <<data, value, pred, strat>>
locals == <<runner, bound, prev, curr, sfirst, slast, n, pos, step, base, i>>
vars == <<data, value, pred, strat, pc, dir, result, runner, bound, prev, curr,
          sfirst, slast, n, pos, step, base, i, probes, nprobes, prevCall>>

\* ------------------------------------------------------------ the range
IsSorted(s) == \A k \in 1..(Len(s) - 1) : s[k] <= s[k + 1]
SortedSeqs == {s \in UNION {[1..k -> Elems] : k \in 0..MaxLen} : IsSorted(s)}

last == Len(data)
InRange(k) == k \in 0..(last - 1)
At(k) == data[k + 1]

\* the outcomes of dereferencing first + k
Mem(k) ==
    IF InRange(k)
    THEN {[trap |-> FALSE, val |-> At(k)]}
    ELSE {[trap |-> TRUE, val |-> 0]} \cup {[trap |-> FALSE, val |-> g] : g \in Garbage}

Min(a, b) == IF a < b THEN a ELSE b
Max(a, b) == IF a > b THEN a ELSE b

Return(r) == pc' = "done" /\ result' = r
Trap == pc' = "fault" /\ result' = result

\* ------------------------------------------------------ std::lower_bound
RECURSIVE LowerBoundLoop(_, _, _)
LowerBoundLoop(lo, len, v) ==
    IF len > 0
    THEN LET half == len \div 2
             mid == lo + half
         IN  IF At(mid) < v
             THEN LowerBoundLoop(mid + 1, len - half - 1, v)
             ELSE LowerBoundLoop(lo, half, v)
    ELSE lo

\* std::upper_bound in place of std::lower_bound
RECURSIVE UpperBoundLoop(_, _, _)
UpperBoundLoop(lo, len, v) ==
    IF len > 0
    THEN LET half == len \div 2
             mid == lo + half
         IN  IF At(mid) <= v
             THEN UpperBoundLoop(mid + 1, len - half - 1, v)
             ELSE UpperBoundLoop(lo, half, v)
    ELSE lo

upper_bound(lo, hi, v) == UpperBoundLoop(lo, hi - lo, v)

lower_bound(lo, hi, v) == LowerBoundLoop(lo, hi - lo, v)

\* --------------------------------------------------------- LinearSearch
RECURSIVE LinearScan(_, _, _)
LinearScan(r, hi, v) ==
    IF r # hi
    THEN IF At(r) >= v THEN r ELSE LinearScan(r + 1, hi, v)
    ELSE hi

LinearSearch ==
    /\ pc = "call" /\ strat = "LinearSearch"
    /\ Return(LinearScan(0, last, value))
    /\ UNCHANGED <<args, locals, dir, probes, nprobes, prevCall>>

\* ------------------------------------------ the model-biased direction rule
\* `*pred < value`: search the right side, else the left side
\* `*pred <= value` in place of `*pred < value`
GoesRightOrEqual(x, v) == x <= v

GoesRight(x, v) == x < v

\* ----------------------------------------------- ModelBiasedLinearSearch
MBLinearEnter ==
    /\ pc = "call" /\ strat = "ModelBiasedLinearSearch"
    /\ \E x \in Mem(pred) :
          IF x.trap
          THEN Trap /\ UNCHANGED <<runner, dir>>
          ELSE /\ runner' = pred
               /\ dir' = IF GoesRight(x.val, value) THEN "right" ELSE "left"
               /\ pc' = "loop" /\ result' = result
    /\ UNCHANGED <<args, bound, prev, curr, sfirst, slast, n, pos, step, base, i,
                   probes, nprobes, prevCall>>

MBLinearRight ==
    /\ pc = "loop" /\ strat = "ModelBiasedLinearSearch" /\ dir = "right"
    /\ IF runner < last
       THEN \E x \in Mem(runner) :
               /\ probes' = probes \cup {runner}
               /\ nprobes' = nprobes + 1
               /\ IF x.trap
                  THEN Trap /\ UNCHANGED runner
                  ELSE IF x.val >= value
                       THEN Return(runner) /\ UNCHANGED runner
                       ELSE runner' = runner + 1 /\ UNCHANGED <<pc, result>>
       ELSE Return(last) /\ UNCHANGED <<runner, probes, nprobes>>
    /\ UNCHANGED <<args, dir, bound, prev, curr, sfirst, slast, n, pos, step, base, i,
                   prevCall>>

MBLinearLeft ==
    /\ pc = "loop" /\ strat = "ModelBiasedLinearSearch" /\ dir = "left"
    /\ IF runner >= 0
       THEN \E x \in Mem(runner) :
               /\ probes' = probes \cup {runner}
               /\ nprobes' = nprobes + 1
               /\ IF x.trap
                  THEN Trap /\ UNCHANGED runner
                  ELSE IF x.val < value
                       THEN Return(runner + 1) /\ runner' = runner + 1
                       ELSE runner' = runner - 1 /\ UNCHANGED <<pc, result>>
       ELSE Return(0) /\ UNCHANGED <<runner, probes, nprobes>>
    /\ UNCHANGED <<args, dir, bound, prev, curr, sfirst, slast, n, pos, step, base, i,
                   prevCall>>

\* ---------------------------------------------------------- BinarySearch
BinarySearch ==
    /\ pc = "call" /\ strat = "BinarySearch"
    /\ sfirst' = 0 /\ slast' = last
    /\ Return(lower_bound(0, last, value))
    /\ UNCHANGED <<args, dir, runner, bound, prev, curr, n, pos, step, base, i,
                   probes, nprobes, prevCall>>

\* ----------------------------------------------- ModelBiasedBinarySearch
ModelBiasedBinarySearch ==
    /\ pc = "call" /\ strat = "ModelBiasedBinarySearch"
    /\ \E x \in Mem(pred) :
          IF x.trap
          THEN Trap /\ UNCHANGED <<dir, sfirst, slast>>
          ELSE IF GoesRight(x.val, value)
               THEN /\ dir' = "right" /\ sfirst' = pred /\ slast' = last
                    /\ Return(lower_bound(pred, last, value))
               ELSE /\ dir' = "left" /\ sfirst' = 0 /\ slast' = pred
                    /\ Return(lower_bound(0, pred, value))
    /\ UNCHANGED <<args, runner, bound, prev, curr, n, pos, step, base, i,
                   probes, nprobes, prevCall>>

\* ----------------------------------------------------- ExponentialSearch
\* `curr <= last` in place of `curr < last`
RightInBoundsInclusive(c) == c <= Len(data)

\* `curr < last`, the half of the loop condition that guards the dereference
RightInBounds(c) == c < last
\* `curr > first`
LeftInBounds(c) == c > 0
\* the range of the final std::lower_bound of a rightward doubling
RightBracket(p, c) == <<p, Min(c + 1, last)>>
\* a left bracket that starts one past curr
LeftBracketPastCurr(p, c) == <<Max(0, c + 1), p>>

\* the range of the final std::lower_bound of a leftward doubling
LeftBracket(p, c) == <<Max(0, c), p>>

ExponentialEnter ==
    /\ pc = "call" /\ strat = "ExponentialSearch"
    /\ \E x \in Mem(0) :
          IF x.trap
          THEN Trap /\ UNCHANGED <<dir, bound, prev, curr>>
          ELSE IF x.val >= value
               THEN Return(0) /\ UNCHANGED <<dir, bound, prev, curr>>
               ELSE /\ bound' = 1 /\ prev' = 0 /\ curr' = 0 + 1
                    /\ dir' = "right" /\ pc' = "loop" /\ result' = result
    /\ UNCHANGED <<args, runner, sfirst, slast, n, pos, step, base, i,
                   probes, nprobes, prevCall>>

\* one evaluation of `while (curr < last and *curr < value)`: the body, or
\* the return that follows the loop
ExponentialLoop ==
    /\ pc = "loop" /\ strat = "ExponentialSearch"
    /\ \E x \in (IF RightInBounds(curr) THEN Mem(curr) ELSE {[trap |-> FALSE, val |-> value]}) :
          /\ probes' = IF RightInBounds(curr) THEN probes \cup {curr} ELSE probes
          /\ nprobes' = IF RightInBounds(curr) THEN nprobes + 1 ELSE nprobes
          /\ IF x.trap
             THEN Trap /\ UNCHANGED <<bound, prev, curr, sfirst, slast>>
             ELSE IF RightInBounds(curr) /\ x.val < value
                  THEN /\ bound' = bound * 2
                       /\ prev' = curr
                       /\ curr' = curr + bound'
                       /\ UNCHANGED <<pc, result, sfirst, slast>>
                  ELSE /\ sfirst' = RightBracket(prev, curr)[1]
                       /\ slast' = RightBracket(prev, curr)[2]
                       /\ Return(lower_bound(sfirst', slast', value))
                       /\ UNCHANGED <<bound, prev, curr>>
    /\ UNCHANGED <<args, dir, runner, n, pos, step, base, i, prevCall>>

\* ------------------------------------------ ModelBiasedExponentialSearch
MBExponentialEnter ==
    /\ pc = "call" /\ strat = "ModelBiasedExponentialSearch"
    /\ \E x \in Mem(pred) :
          IF x.trap
          THEN Trap /\ UNCHANGED <<dir, bound, prev, curr>>
          ELSE /\ bound' = 1 /\ prev' = pred
               /\ IF GoesRight(x.val, value)
                  THEN dir' = "right" /\ curr' = pred + 1
                  ELSE dir' = "left" /\ curr' = pred - 1
               /\ pc' = "loop" /\ result' = result
    /\ UNCHANGED <<args, runner, sfirst, slast, n, pos, step, base, i,
                   probes, nprobes, prevCall>>

MBExponentialRight ==
    /\ pc = "loop" /\ strat = "ModelBiasedExponentialSearch" /\ dir = "right"
    /\ \E x \in (IF RightInBounds(curr) THEN Mem(curr) ELSE {[trap |-> FALSE, val |-> value]}) :
          /\ probes' = IF RightInBounds(curr) THEN probes \cup {curr} ELSE probes
          /\ nprobes' = IF RightInBounds(curr) THEN nprobes + 1 ELSE nprobes
          /\ IF x.trap
             THEN Trap /\ UNCHANGED <<bound, prev, curr, sfirst, slast>>
             ELSE IF RightInBounds(curr) /\ x.val < value
                  THEN /\ bound' = bound * 2
                       /\ prev' = curr
                       /\ curr' = curr + bound'
                       /\ UNCHANGED <<pc, result, sfirst, slast>>
                  ELSE /\ sfirst' = RightBracket(prev, curr)[1]
                       /\ slast' = RightBracket(prev, curr)[2]
                       /\ Return(lower_bound(sfirst', slast', value))
                       /\ UNCHANGED <<bound, prev, curr>>
    /\ UNCHANGED <<args, dir, runner, n, pos, step, base, i, prevCall>>

MBExponentialLeft ==
    /\ pc = "loop" /\ strat = "ModelBiasedExponentialSearch" /\ dir = "left"
    /\ \E x \in (IF LeftInBounds(curr) THEN Mem(curr) ELSE {[trap |-> FALSE, val |-> value]}) :
          /\ probes' = IF LeftInBounds(curr) THEN probes \cup {curr} ELSE probes
          /\ nprobes' = IF LeftInBounds(curr) THEN nprobes + 1 ELSE nprobes
          /\ IF x.trap
             THEN Trap /\ UNCHANGED <<bound, prev, curr, sfirst, slast>>
             ELSE IF LeftInBounds(curr) /\ x.val >= value
                  THEN /\ bound' = bound * 2
                       /\ prev' = curr
                       /\ curr' = curr - bound'
                       /\ UNCHANGED <<pc, result, sfirst, slast>>
                  ELSE /\ sfirst' = LeftBracket(prev, curr)[1]
                       /\ slast' = LeftBracket(prev, curr)[2]
                       /\ Return(lower_bound(sfirst', slast', value))
                       /\ UNCHANGED <<bound, prev, curr>>
    /\ UNCHANGED <<args, dir, runner, n, pos, step, base, i, prevCall>>

\* ----------------------------------------------------- the SIMD searches
Lanes == 0..(SimdStep - 1)

\* a bit pattern of `bits` bits read as a signed integer
ToSigned(x, bits) ==
    LET m == x % (2 ^ bits)
    IN  IF m >= 2 ^ (bits - 1) THEN m - 2 ^ bits ELSE m

\* _mm512_set1_epi32(value): the low half-lane of the value in every
\* half-lane; what each full lane then holds, read as a signed integer
mm512_set1_epi32(v) ==
    LET h == 2 ^ HalfLaneBits
        low == v % h
    IN  ToSigned(low * h + low, 2 * HalfLaneBits)

\* _mm512_loadu_si512(&data[k]): the lanes of the block at offset k, the
\* lanes outside the range filled from g
mm512_loadu_si512(k, g) ==
    [j \in Lanes |-> ToSigned(IF InRange(k + j) THEN At(k + j) ELSE g[j], 2 * HalfLaneBits)]

\* _mm512_cmplt_epi64_mask(vec, values): the lanes whose element is less
\* than the lane of `values` (all its lanes are equal)
mm512_cmplt_epi64_mask(vec, values) == {j \in Lanes : vec[j] < values}

\* __builtin_ctz(cmp_mask), cmp_mask # 0
builtin_ctz(mask) == CHOOSE j \in mask : \A k \in mask : j <= k

\* one evaluation of `for (size_t i = 0; i < n; i += step)`: the body, or
\* `return last`
SimdLoop ==
    IF i < n
    THEN LET oob == {j \in Lanes : ~InRange(base + i + j)}
         IN  \E g \in [oob -> Garbage], t \in (IF oob = {} THEN {FALSE} ELSE BOOLEAN) :
                LET values == mm512_set1_epi32(value)
                    vec == mm512_loadu_si512(base + i, g)
                    cmp_mask == mm512_cmplt_epi64_mask(vec, values)
                IN  /\ probes' = probes \cup {base + i + j : j \in Lanes}
                    /\ nprobes' = nprobes + 1
                    /\ IF t
                       THEN Trap /\ UNCHANGED i
                       ELSE IF cmp_mask # {}
                            THEN Return(0 + i + builtin_ctz(cmp_mask)) /\ UNCHANGED i
                            ELSE i' = i + SimdStep /\ UNCHANGED <<pc, result>>
    ELSE Return(last) /\ UNCHANGED <<i, probes, nprobes>>

LinearSearchSIMDEnter ==
    /\ pc = "call" /\ strat = "LinearSearch_SIMD"
    /\ base' = 0 /\ n' = last - 0 /\ i' = 0
    /\ pc' = "loop" /\ result' = result
    /\ UNCHANGED <<args, dir, runner, bound, prev, curr, sfirst, slast, pos, step,
                   probes, nprobes, prevCall>>

LinearSearchSIMDLoop ==
    /\ pc = "loop" /\ strat = "LinearSearch_SIMD"
    /\ SimdLoop
    /\ UNCHANGED <<args, dir, runner, bound, prev, curr, sfirst, slast, n, pos, step,
                   base, prevCall>>

MBLinearSIMDEnter ==
    /\ pc = "call" /\ strat = "ModelBiasedLinearSearch_SIMD"
    /\ \E x \in Mem(pred) :
          IF x.trap
          THEN Trap /\ UNCHANGED <<dir, base, n, i>>
          ELSE /\ IF GoesRight(x.val, value)
                  THEN dir' = "right" /\ base' = pred /\ n' = last - pred
                  ELSE dir' = "left" /\ base' = 0 /\ n' = pred - 0
               /\ i' = 0
               /\ pc' = "loop" /\ result' = result
    /\ UNCHANGED <<args, runner, bound, prev, curr, sfirst, slast, pos, step,
                   probes, nprobes, prevCall>>

MBLinearSIMDRight ==
    /\ pc = "loop" /\ strat = "ModelBiasedLinearSearch_SIMD" /\ dir = "right"
    /\ SimdLoop
    /\ UNCHANGED <<args, dir, runner, bound, prev, curr, sfirst, slast, n, pos, step,
                   base, prevCall>>

MBLinearSIMDLeft ==
    /\ pc = "loop" /\ strat = "ModelBiasedLinearSearch_SIMD" /\ dir = "left"
    /\ SimdLoop
    /\ UNCHANGED <<args, dir, runner, bound, prev, curr, sfirst, slast, n, pos, step,
                   base, prevCall>>

\* ----------------------------------------------- the branchless searches
RECURSIVE BsrLoop(_, _)
BsrLoop(x, ret) == IF x # 0 THEN BsrLoop(x \div 2, ret + 1) ELSE ret

\* a bit scan whose count starts at 0 in place of -1
bsr_from_zero(x) == BsrLoop(x, 0)

bsr(x) == BsrLoop(x, -1)

\* intptr_t(1) << logstep.  A negative shift count has no defined result:
\* the hardware either masks the count (1 << (PtrBits - 1), the least
\* intptr_t) or shifts everything out (0).
ShiftLeftOne(logstep) ==
    IF logstep >= 0 THEN {2 ^ logstep} ELSE {0, -(2 ^ (PtrBits - 1))}

\* the offset from `first` that the descent dereferences: *(first + step)
ProbeOffset(p, s) == s

\* one evaluation of `while (step > 0)`: the body, or the return
Descent ==
    IF step > 0
    THEN \E x \in Mem(ProbeOffset(pos, step)) :
            /\ probes' = probes \cup {ProbeOffset(pos, step)}
            /\ nprobes' = nprobes + 1
            /\ IF x.trap
               THEN Trap /\ UNCHANGED <<pos, step>>
               ELSE /\ pos' = IF x.val < value THEN pos + step ELSE pos
                    /\ step' = step \div 2
                    /\ UNCHANGED <<pc, result>>
    ELSE Return(0 + (pos + 1)) /\ UNCHANGED <<pos, step, probes, nprobes>>

BranchlessEnter ==
    /\ pc = "call" /\ strat = "BinarySearch_Branchless"
    /\ n' = last - 0
    /\ pos' = MINUS_ONE
    /\ step' \in ShiftLeftOne(bsr(n'))
    /\ pc' = "loop" /\ result' = result
    /\ UNCHANGED <<args, dir, runner, bound, prev, curr, sfirst, slast, base, i,
                   probes, nprobes, prevCall>>

BranchlessLoop ==
    /\ pc = "loop" /\ strat = "BinarySearch_Branchless"
    /\ Descent
    /\ UNCHANGED <<args, dir, runner, bound, prev, curr, sfirst, slast, n, base, i,
                   prevCall>>

MBBranchlessEnter ==
    /\ pc = "call" /\ strat = "ModelBiasedBinarySearch_Branchless"
    /\ \E x \in Mem(pred) :
          IF x.trap
          THEN Trap /\ UNCHANGED <<dir, n, pos, step>>
          ELSE /\ IF GoesRight(x.val, value)
                  THEN dir' = "right" /\ n' = last - pred
                  ELSE dir' = "left" /\ n' = pred - 0
               /\ pos' = MINUS_ONE
               /\ step' \in ShiftLeftOne(bsr(n'))
               /\ pc' = "loop" /\ result' = result
    /\ UNCHANGED <<args, runner, bound, prev, curr, sfirst, slast, base, i,
                   probes, nprobes, prevCall>>

MBBranchlessRight ==
    /\ pc = "loop" /\ strat = "ModelBiasedBinarySearch_Branchless" /\ dir = "right"
    /\ Descent
    /\ UNCHANGED <<args, dir, runner, bound, prev, curr, sfirst, slast, n, base, i,
                   prevCall>>

MBBranchlessLeft ==
    /\ pc = "loop" /\ strat = "ModelBiasedBinarySearch_Branchless" /\ dir = "left"
    /\ Descent
    /\ UNCHANGED <<args, dir, runner, bound, prev, curr, sfirst, slast, n, base, i,
                   prevCall>>

\* ------------------------------------------------------------ the caller
\* the caller invokes the same model-biased functor again on the same range
\* and value, with another predicted position
Recall ==
    /\ pc = "done" /\ strat \in ModelBiased /\ prevCall = <<>>
    /\ prevCall' = <<pred, result>>
    /\ pred' \in 0..last
    /\ pc' = "call" /\ dir' = "none" /\ result' = 0
    /\ runner' = 0 /\ bound' = 0 /\ prev' = 0 /\ curr' = 0
    /\ sfirst' = 0 /\ slast' = 0 /\ n' = 0 /\ pos' = 0 /\ step' = 0
    /\ base' = 0 /\ i' = 0 /\ probes' = {} /\ nprobes' = 0
    /\ UNCHANGED <<data, value, strat>>

Init ==
    /\ data \in SortedSeqs
    /\ value \in Queries
    /\ pred \in 0..Len(data)
    /\ strat \in Strategies
    /\ pc = "call" /\ dir = "none" /\ result = 0
    /\ runner = 0 /\ bound = 0 /\ prev = 0 /\ curr = 0
    /\ sfirst = 0 /\ slast = 0 /\ n = 0 /\ pos = 0 /\ step = 0
    /\ base = 0 /\ i = 0 /\ probes = {} /\ nprobes = 0
    /\ prevCall = <<>>

Next ==
    \/ LinearSearch
    \/ MBLinearEnter \/ MBLinearRight \/ MBLinearLeft
    \/ BinarySearch
    \/ ModelBiasedBinarySearch
    \/ ExponentialEnter \/ ExponentialLoop
    \/ MBExponentialEnter \/ MBExponentialRight \/ MBExponentialLeft
    \/ LinearSearchSIMDEnter \/ LinearSearchSIMDLoop
    \/ MBLinearSIMDEnter \/ MBLinearSIMDRight \/ MBLinearSIMDLeft
    \/ BranchlessEnter \/ BranchlessLoop
    \/ MBBranchlessEnter \/ MBBranchlessRight \/ MBBranchlessLeft
    \/ Recall

Spec == Init /\ [][Next]_vars

\* =================================================================
\* The properties
\* =================================================================

\* the position an exhaustive linear scan of the whole range returns: the
\* first offset whose element is not less than the value, or last
RefLowerBound ==
    CHOOSE k \in 0..last :
        /\ k = last \/ At(k) >= value
        /\ \A j \in 0..(k - 1) : At(j) < value

Unbiased3 == {"LinearSearch", "BinarySearch", "ExponentialSearch"}
Biased3 == {"ModelBiasedLinearSearch", "ModelBiasedBinarySearch",
            "ModelBiasedExponentialSearch"}
Exponential2 == {"ExponentialSearch", "ModelBiasedExponentialSearch"}
Branchless2 == {"BinarySearch_Branchless", "ModelBiasedBinarySearch_Branchless"}

\* C1: on a non-empty sorted range, LinearSearch, BinarySearch and
\* ExponentialSearch return the position of the exhaustive linear scan
\* (leftmost among duplicates, last when no element qualifies), whatever
\* the predicted position.
C1_UnbiasedLowerBound ==
    (pc = "done" /\ strat \in Unbiased3 /\ last >= 1) => result = RefLowerBound

\* ExponentialSearch has doubled at least once and returned the leftmost
\* of two equal elements, with a predicted position that is not the answer
C1_Witness ==
    /\ pc = "done" /\ strat = "ExponentialSearch" /\ last >= 4
    /\ result = 2 /\ At(2) = value /\ At(3) = value /\ bound >= 2
    /\ pred # result

\* C2: on a non-empty sorted range with the predicted position inside
\* [first, last), ModelBiasedLinearSearch, ModelBiasedBinarySearch and
\* ModelBiasedExponentialSearch return the lower bound of the whole range;
\* they search rightward exactly when the element at the predicted
\* position is less than the value.
C2_BiasedLowerBound ==
    (pc = "done" /\ strat \in Biased3 /\ pred < last) =>
        /\ result = RefLowerBound
        /\ (dir = "right") <=> (At(pred) < value)
        /\ (dir = "left") <=> (At(pred) >= value)

\* a leftward model-biased exponential search from a predicted position
\* three positions right of the answer, the answer being the leftmost of
\* two equal elements
C2_Witness ==
    /\ pc = "done" /\ strat = "ModelBiasedExponentialSearch" /\ dir = "left"
    /\ last = 4 /\ pred = 3 /\ result = 0 /\ At(0) = value /\ At(1) = value
    /\ At(3) > value

\* C3: for every model-biased functor, two calls on the same range and
\* value with two predicted positions inside [first, last) return the same
\* position.
C3_HintInvariance ==
    (/\ pc = "done" /\ strat \in ModelBiased /\ prevCall # <<>>
     /\ pred < last /\ prevCall[1] < last)
        => result = prevCall[2]

\* C4: on a non-empty sorted range BinarySearch_Branchless returns the
\* position BinarySearch returns.
C4_BranchlessEqualsBinary ==
    (pc = "done" /\ strat = "BinarySearch_Branchless" /\ last >= 1)
        => result = lower_bound(0, last, value)

\* C5: on a non-empty sorted range LinearSearch_SIMD returns the position
\* LinearSearch returns.
C5_SIMDEqualsLinear ==
    (pc = "done" /\ strat = "LinearSearch_SIMD" /\ last >= 1)
        => result = LinearScan(0, last, value)

\* C6: on a well-formed input each of the ten functors completes without a
\* trap and returns a position in [first, last]: last when the value is
\* greater than every element, first when it is less than every element.
\* Stated on the well-formed inputs that no functor's precondition
\* excludes: a non-empty sorted range and first <= pred < last.
C6_ValidPosition ==
    (last >= 1 /\ pred < last) =>
        /\ pc # "fault"
        /\ pc = "done" =>
              /\ result \in 0..last
              /\ (\A k \in 0..(last - 1) : At(k) < value) => result = last
              /\ (\A k \in 0..(last - 1) : At(k) > value) => result = 0

\* the start of the sub-range a branchless search descends over
SubRangeStart ==
    IF strat = "ModelBiasedBinarySearch_Branchless" /\ dir = "right" THEN pred ELSE 0

\* C7: every probe of the step descent of BinarySearch_Branchless and of
\* both branches of ModelBiasedBinarySearch_Branchless dereferences an
\* offset less than n from the start of the sub-range searched, n >= 1
\* being its length.
C7_ProbeBelowN ==
    (strat \in Branchless2 /\ pc \in {"loop", "done", "fault"} /\ n >= 1
       /\ pred < last)
        => \A p \in probes : p - SubRangeStart < n

\* the claim's case of C8 and C10: a non-empty range and a predicted
\* position inside it
HintInRange == pred < last

\* the distance the loop of the current call still can go
Measure ==
    IF strat = "ModelBiasedLinearSearch"
    THEN IF dir = "right" THEN Max(0, last - runner) ELSE Max(0, runner + 1)
    ELSE IF dir = "right" THEN Max(0, last - curr) ELSE Max(0, curr)

C8_Strategies == Exponential2 \cup {"ModelBiasedLinearSearch"}

C8_InRange ==
    (strat \in C8_Strategies /\ HintInRange) =>
        /\ pc # "fault"
        /\ probes \subseteq 0..(last - 1)

C8_Progress ==
    (strat \in C8_Strategies /\ HintInRange /\ pc = "loop") =>
        \/ pc' = "done"
        \/ pc' = "loop" /\ Measure' < Measure

\* C8: with a predicted position inside a non-empty sorted range, the
\* doubling loops of ExponentialSearch and ModelBiasedExponentialSearch
\* and the scans of ModelBiasedLinearSearch dereference only positions
\* inside [first, last) and terminate: every step of a loop either returns
\* or strictly decreases a natural-numbered measure.
C8_LoopsStayInRangeAndTerminate == [](C8_InRange) /\ [][C8_Progress]_vars

\* a rightward doubling that has probed the last element and stepped past
\* last, and a leftward one that has probed position 1
C8_Witness ==
    /\ pc = "done" /\ HintInRange
    /\ \/ /\ strat = "ExponentialSearch" /\ (last - 1) \in probes /\ curr > last
          /\ result = last
       \/ /\ strat = "ModelBiasedExponentialSearch" /\ dir = "left" /\ 1 \in probes
          /\ nprobes >= 2 /\ result = 0

\* the index of the highest set bit of x, x >= 1
HighBit(x) == CHOOSE k \in 0..x : 2 ^ k <= x /\ x < 2 ^ (k + 1)

C10_Bracketing ==
    (strat \in Exponential2 /\ HintInRange /\ dir # "none" /\ pc \in {"loop", "done"}) =>
        /\ prev \in 0..(last - 1)
        /\ dir = "right" => At(prev) < value
        /\ dir = "left" => At(prev) >= value
        /\ (pc = "done" /\ dir = "right") =>
              /\ sfirst = prev /\ slast = Min(curr + 1, last)
              /\ RefLowerBound \in sfirst..slast
        /\ (pc = "done" /\ dir = "left") =>
              /\ sfirst = Max(0, curr) /\ slast = prev
              /\ RefLowerBound \in sfirst..slast

\* the predicted position is the first position and curr has stepped before
\* first
C10_Witness ==
    /\ pc = "done" /\ strat = "ModelBiasedExponentialSearch" /\ dir = "left"
    /\ pred = 0 /\ last >= 2 /\ curr = -1 /\ sfirst = 0 /\ slast = 0 /\ result = 0

====
